---- MODULE Spec2Model ----
(***************************************************************************)
(* A model of maya_sniffer.py: the Parser that attributes the lines of a   *)
(* Maya ASCII scene to the nodes it declares, and the embedded squarify    *)
(* treemap layout (normalize_sizes, layout, squarify, Widget.layout).      *)
(*                                                                         *)
(* Text is modelled character by character: a Python str is a sequence of  *)
(* one-character strings, so startswith, strip, rstrip, split, replace and *)
(* len are computed as Python computes them.  Python floats are modelled   *)
(* as exact rationals <<numerator, denominator>>.                          *)
(***************************************************************************)
EXTENDS Integers, Sequences, FiniteSets

VARIABLES
    file,               \* the lines read(fname) returns for the scene file
    current_node,       \* Parser._current_node      (None or Some(name))
    current_node_type,  \* Parser._current_node_type (None or Some(type))
    result,             \* Parser.result
    raised,             \* the exception the last operation ended with
    calls,              \* parse calls made on this Parser instance
    pre_node,           \* _current_node when the last parse call began
    pre_type,           \* _current_node_type when the last parse call began
    sizes,              \* the list object handed to the layout code
    given,              \* what that list held when the operation began
    box,                \* the bounding rectangle [x, y, dx, dy]
    normalized,         \* the list normalize_sizes returned
    rects,              \* the rectangles layout or squarify returned
    squares,            \* the Square labels Widget.layout created
    op                  \* the layout operation that ran last

parserFields == <<file, current_node, current_node_type, result, calls,
                  pre_node, pre_type>>
layoutVars == <<sizes, given, box, normalized, rects, squares, op>>
vars == <<file, current_node, current_node_type, result, raised, calls,
          pre_node, pre_type, sizes, given, box, normalized, rects, squares,
          op>>

(***************************************************************************)
(* Bounds of the model.                                                    *)
(***************************************************************************)
MaxLines == 3
MaxCalls == 2
MaxItems == 3
MaxWeight == 2
MaxSide == 3

(***************************************************************************)
(* Python values.                                                          *)
(***************************************************************************)
None == <<>>
Some(v) == <<v>>
EmptyDict == <<>>
NoError == "none"

(***************************************************************************)
(* str methods.                                                            *)
(***************************************************************************)
Whitespace == {" ", "\t", "\n", "\r"}

StartsWith(s, prefix) ==
    /\ Len(s) >= Len(prefix)
    /\ SubSeq(s, 1, Len(prefix)) = prefix

RECURSIVE LStrip(_, _)
LStrip(s, chars) ==
    IF s # <<>> /\ Head(s) \in chars THEN LStrip(Tail(s), chars) ELSE s

RECURSIVE RStrip(_, _)
RStrip(s, chars) ==
    IF s # <<>> /\ s[Len(s)] \in chars
    THEN RStrip(SubSeq(s, 1, Len(s) - 1), chars)
    ELSE s

Strip(s) == RStrip(LStrip(s, Whitespace), Whitespace)

\* s.split(): the maximal runs of non-whitespace characters, in order
RECURSIVE SplitFrom(_, _, _)
SplitFrom(s, k, word) ==
    IF k > Len(s)
    THEN IF word = <<>> THEN <<>> ELSE <<word>>
    ELSE IF s[k] \in Whitespace
         THEN IF word = <<>>
              THEN SplitFrom(s, k + 1, <<>>)
              ELSE <<word>> \o SplitFrom(s, k + 1, <<>>)
         ELSE SplitFrom(s, k + 1, Append(word, s[k]))

Split(s) == SplitFrom(s, 1, <<>>)

\* list.index(x): the first position holding x, 0 when there is none
\* (Python raises ValueError there)
Index(comp, x) ==
    IF \E k \in 1..Len(comp) : comp[k] = x
    THEN CHOOSE k \in 1..Len(comp) :
            comp[k] = x /\ \A j \in 1..(k - 1) : comp[j] # x
    ELSE 0

IsQuote(c) == c = "\""
IsNotQuote(c) == ~IsQuote(c)

\* name.replace('"', "")
RemoveQuotes(s) == SelectSeq(s, IsNotQuote)

RECURSIVE SumLen(_)
SumLen(lines) ==
    IF lines = <<>> THEN 0 ELSE Len(Head(lines)) + SumLen(Tail(lines))

(***************************************************************************)
(* The statement markers and the lines a scene file is drawn from.         *)
(***************************************************************************)
KwSelect == <<"s", "e", "l", "e", "c", "t">>
KwConnectAttr == <<"c", "o", "n", "n", "e", "c", "t", "A", "t", "t", "r">>
KwCreateNode == <<"c", "r", "e", "a", "t", "e", "N", "o", "d", "e">>
KwSetAttr == <<"s", "e", "t", "A", "t", "t", "r">>
FlagN == <<"-", "n">>

\* createNode transform -n "a";
LineCreateA ==
    KwCreateNode \o <<" ", "t", "r", "a", "n", "s", "f", "o", "r", "m", " ">>
    \o FlagN \o <<" ", "\"", "a", "\"", ";", "\n">>
\* createNode mesh -n "b" -p "a";
LineCreateB ==
    KwCreateNode \o <<" ", "m", "e", "s", "h", " ">> \o FlagN
    \o <<" ", "\"", "b", "\"", " ", "-", "p", " ", "\"", "a", "\"", ";", "\n">>
\* <tab>setAttr ".t" 1;
LineSetAttr ==
    <<"\t">> \o KwSetAttr \o <<" ", "\"", ".", "t", "\"", " ", "1", ";", "\n">>
\* <tab><tab>1 2 ;       (a continuation line of a multi-line setAttr)
LineData == <<"\t", "\t", "1", " ", "2", " ", ";", "\n">>
\* select -ne :time1;
LineSelect ==
    KwSelect \o <<" ", "-", "n", "e", " ", ":", "t", "i", "m", "e", "1", ";", "\n">>
\* connectAttr "a.t" "b.t";
LineConnect ==
    KwConnectAttr \o <<" ", "\"", "a", ".", "t", "\"", " ", "\"", "b", ".", "t",
                       "\"", ";", "\n">>
\* createNode -n "c";     (no type token)
LineNoType ==
    KwCreateNode \o <<" ">> \o FlagN \o <<" ", "\"", "c", "\"", ";", "\n">>
\* createNode transform;  (no -n flag)
LineNoFlag ==
    KwCreateNode \o <<" ", "t", "r", "a", "n", "s", "f", "o", "r", "m", ";", "\n">>
\* createNode mesh -n;    (a -n flag with no name after it)
LineNoName ==
    KwCreateNode \o <<" ", "m", "e", "s", "h", " ">> \o FlagN \o <<";", "\n">>

Lines == {LineCreateA, LineCreateB, LineSetAttr, LineData, LineSelect,
          LineConnect, LineNoType, LineNoFlag, LineNoName}

Files == UNION {[1..n -> Lines] : n \in 0..MaxLines}

fname == "scene.ma"

(***************************************************************************)
(* class Parser                                                            *)
(***************************************************************************)
\* The parser's fields while a parse call runs.
ParserState(node, type, nodes, exc) ==
    [current_node |-> node, current_node_type |-> type, nodes |-> nodes,
     raised |-> exc]

\* Parser.on_create
on_create(st, line) ==
    LET comp == Split(line)
        index == Index(comp, FlagN)
    IN  IF index = 0
        THEN [st EXCEPT !.raised = "ValueError"]
        ELSE IF Len(comp) < 2 \/ index + 1 > Len(comp)
        THEN [st EXCEPT !.raised = "IndexError"]
        ELSE [st EXCEPT !.current_node = Some(RemoveQuotes(comp[index + 1])),
                        !.current_node_type = Some(comp[2])]

\* the length on_setattr adds to "characters": len() of the line it is given
CountedLength(line) == Len(line)

\* Parser.on_setattr
on_setattr(st, line) ==
    LET key == st.current_node
        nodes == st.nodes
        entry == IF key \in DOMAIN nodes
                 THEN nodes[key]
                 ELSE [nodeType |-> st.current_node_type,
                       lines |-> 0, characters |-> 0]
        counted == [entry EXCEPT !.lines = @ + 1,
                                 !.characters = @ + CountedLength(line)]
    IN  [st EXCEPT !.nodes = [k \in DOMAIN nodes \cup {key} |->
                                 IF k = key THEN counted ELSE nodes[k]]]

\* the two tests that break out of the loop of Parser.parse
IsTerminatorSelectOnly(raw) == StartsWith(raw, KwSelect)
IsTerminator(raw) ==
    StartsWith(raw, KwSelect) \/ StartsWith(raw, KwConnectAttr)

\* line.strip().rstrip(" ;\n")
Trim(raw) == RStrip(Strip(raw), {" ", ";", "\n"})

\* the for loop of Parser.parse, from line k on
RECURSIVE ParseLoop(_, _, _)
ParseLoop(st, lines, k) ==
    IF k > Len(lines) THEN st
    ELSE IF IsTerminator(lines[k]) THEN st
    ELSE LET line == Trim(lines[k]) IN
         IF StartsWith(line, KwCreateNode)
         THEN LET created == on_create(st, line) IN
              IF created.raised # NoError
              THEN created
              ELSE ParseLoop(created, lines, k + 1)
         ELSE IF StartsWith(line, KwSetAttr)
         THEN ParseLoop(on_setattr(st, line), lines, k + 1)
         ELSE IF st.current_node # None
         THEN ParseLoop(on_setattr(st, line), lines, k + 1)
         ELSE ParseLoop(st, lines, k + 1)

\* the fields a parse call starts from: nothing resets the current node
ParseStart(node, type) == ParserState(node, type, EmptyDict, NoError)

\* Parser.__init__
NewParser ==
    /\ current_node' = None
    /\ current_node_type' = None
    /\ result' = EmptyDict
    /\ raised' = NoError
    /\ calls' = 0
    /\ pre_node' = None
    /\ pre_type' = None
    /\ UNCHANGED <<file, layoutVars>>

\* Parser.parse(fname)
Parse ==
    /\ calls < MaxCalls
    /\ LET lines == file
           end == ParseLoop(ParseStart(current_node, current_node_type),
                            lines, 1)
       IN  /\ result' = [fname |-> fname,
                         filesize |-> SumLen(lines),
                         lineCount |-> Len(lines),
                         totalCharacterCount |-> SumLen(lines),
                         nodes |-> end.nodes]
           /\ current_node' = end.current_node
           /\ current_node_type' = end.current_node_type
           /\ raised' = end.raised
    /\ calls' = calls + 1
    /\ pre_node' = current_node
    /\ pre_type' = current_node_type
    /\ UNCHANGED <<file, layoutVars>>

Init ==
    /\ file \in Files
    /\ current_node = None
    /\ current_node_type = None
    /\ result = EmptyDict
    /\ raised = NoError
    /\ calls = 0
    /\ pre_node = None
    /\ pre_type = None
    /\ sizes = <<>>
    /\ given = <<>>
    /\ box = <<>>
    /\ normalized = <<>>
    /\ rects = <<>>
    /\ squares = <<>>
    /\ op = "idle"

Next == NewParser \/ Parse

Spec == Init /\ [][Next]_vars

(***************************************************************************)
(* Numbers of the layout code: a float is an exact rational <<n, d>> with  *)
(* d > 0 and gcd(n, d) = 1.  Undefined, <<0, 0>>, is the outcome of a      *)
(* division by zero (Python raises ZeroDivisionError there); every         *)
(* operation on it yields it again, and the caller then raises.            *)
(***************************************************************************)
Undefined == <<0, 0>>
Failed(a) == a[2] = 0

Abs(n) == IF n < 0 THEN -n ELSE n

RECURSIVE GCD(_, _)
GCD(a, b) == IF b = 0 THEN a ELSE GCD(b, a % b)

Rat(n, d) ==
    LET g == GCD(Abs(n), Abs(d))
    IN  IF d < 0 THEN <<(-n) \div g, (-d) \div g>> ELSE <<n \div g, d \div g>>

Num(n) == <<n, 1>>

RAdd(a, b) ==
    IF Failed(a) \/ Failed(b) THEN Undefined
    ELSE LET g == GCD(a[2], b[2])
         IN  Rat(a[1] * (b[2] \div g) + b[1] * (a[2] \div g),
                 a[2] * (b[2] \div g))

RNeg(a) == <<-a[1], a[2]>>
RSub(a, b) == RAdd(a, RNeg(b))

RMul(a, b) ==
    IF Failed(a) \/ Failed(b) THEN Undefined
    ELSE LET g1 == GCD(Abs(a[1]), b[2])
             g2 == GCD(Abs(b[1]), a[2])
         IN  <<(a[1] \div g1) * (b[1] \div g2), (a[2] \div g2) * (b[2] \div g1)>>

RDiv(a, b) ==
    IF Failed(a) \/ Failed(b) \/ b[1] = 0 THEN Undefined
    ELSE RMul(a, IF b[1] < 0 THEN <<-b[2], -b[1]>> ELSE <<b[2], b[1]>>)

\* an/ad <= bn/bd for ad, bd > 0, by the continued fractions of the two
RECURSIVE FracLe(_, _, _, _)
FracLe(an, ad, bn, bd) ==
    LET qa == an \div ad
        qb == bn \div bd
    IN  IF qa # qb THEN qa < qb
        ELSE IF an % ad = 0 THEN TRUE
        ELSE IF bn % bd = 0 THEN FALSE
        ELSE FracLe(bd, bn % bd, ad, an % ad)

RLe(a, b) == FracLe(a[1], a[2], b[1], b[2])
RLt(a, b) == ~RLe(b, a)

\* max([a, b]): the first of the two unless the second is greater
RMax(a, b) ==
    IF Failed(a) \/ Failed(b) THEN Undefined
    ELSE IF RLt(a, b) THEN b ELSE a

RECURSIVE Sum(_)
Sum(s) == IF s = <<>> THEN Num(0) ELSE RAdd(Head(s), Sum(Tail(s)))

RECURSIVE MaxOf(_)
MaxOf(s) == IF Len(s) = 1 THEN s[1] ELSE RMax(s[1], MaxOf(Tail(s)))

\* int(value), the number "%d" prints
Truncate(a) == IF a[1] >= 0 THEN a[1] \div a[2] ELSE -((-a[1]) \div a[2])

(***************************************************************************)
(* The embedded squarify: layoutrow, layoutcol, layout, leftover,          *)
(* worst_ratio, squarify.  A call returns [raised, rects].                 *)
(***************************************************************************)
Rectangle(x, y, dx, dy) == [x |-> x, y |-> y, dx |-> dx, dy |-> dy]

Returns(rs) == [raised |-> NoError, rects |-> rs]
Raises(exc) == [raised |-> exc, rects |-> <<>>]

AnyFailed(rs) ==
    \E i \in 1..Len(rs) :
        Failed(rs[i].x) \/ Failed(rs[i].y) \/ Failed(rs[i].dx) \/ Failed(rs[i].dy)

Checked(rs) == IF AnyFailed(rs) THEN Raises("ZeroDivisionError") ELSE Returns(rs)

\* the for loop of layoutrow
RECURSIVE RowLoopSquares(_, _, _, _)
RowLoopSquares(s, x, y, width) ==
    IF s = <<>> THEN <<>>
    ELSE <<Rectangle(x, y, width, width)>>
         \o RowLoopSquares(Tail(s), x, RAdd(y, width), width)
RECURSIVE RowLoop(_, _, _, _)
RowLoop(s, x, y, width) ==
    IF s = <<>> THEN <<>>
    ELSE <<Rectangle(x, y, width, RDiv(Head(s), width))>>
         \o RowLoop(Tail(s), x, RAdd(y, RDiv(Head(s), width)), width)

\* the for loop of layoutcol
RECURSIVE ColLoop(_, _, _, _)
ColLoop(s, x, y, height) ==
    IF s = <<>> THEN <<>>
    ELSE <<Rectangle(x, y, RDiv(Head(s), height), height)>>
         \o ColLoop(Tail(s), RAdd(x, RDiv(Head(s), height)), y, height)

\* layoutrow once width is known, layoutcol once height is known
RowOf(s, x, y, width) ==
    IF Failed(width) THEN Raises("ZeroDivisionError")
    ELSE Checked(RowLoop(s, x, y, width))
ColOf(s, x, y, height) ==
    IF Failed(height) THEN Raises("ZeroDivisionError")
    ELSE Checked(ColLoop(s, x, y, height))

layoutrow(s, x, y, dx, dy) == RowOf(s, x, y, RDiv(Sum(s), dy))

layoutcol(s, x, y, dx, dy) == ColOf(s, x, y, RDiv(Sum(s), dx))

layoutSwapped(s, x, y, dx, dy) ==
    IF RLe(dy, dx) THEN layoutcol(s, x, y, dx, dy) ELSE layoutrow(s, x, y, dx, dy)
layout(s, x, y, dx, dy) ==
    IF RLe(dy, dx) THEN layoutrow(s, x, y, dx, dy) ELSE layoutcol(s, x, y, dx, dy)

\* leftoverrow, leftovercol, leftover: <<x, y, dx, dy>> of what remains
RowLeft(x, y, dx, dy, width) == <<RAdd(x, width), y, RSub(dx, width), dy>>
ColLeft(x, y, dx, dy, height) == <<x, RAdd(y, height), dx, RSub(dy, height)>>

leftoverrowKeepsX(s, x, y, dx, dy) == <<x, y, RSub(dx, RDiv(Sum(s), dy)), dy>>
leftoverrow(s, x, y, dx, dy) == RowLeft(x, y, dx, dy, RDiv(Sum(s), dy))

leftovercol(s, x, y, dx, dy) == ColLeft(x, y, dx, dy, RDiv(Sum(s), dx))

leftover(s, x, y, dx, dy) ==
    IF RLe(dy, dx) THEN leftoverrow(s, x, y, dx, dy)
    ELSE leftovercol(s, x, y, dx, dy)

\* max(rect["dx"] / rect["dy"], rect["dy"] / rect["dx"]) over the rectangles
RECURSIVE MaxRatio(_)
MaxRatio(rs) ==
    IF Len(rs) = 1
    THEN RMax(RDiv(rs[1].dx, rs[1].dy), RDiv(rs[1].dy, rs[1].dx))
    ELSE RMax(RMax(RDiv(rs[1].dx, rs[1].dy), RDiv(rs[1].dy, rs[1].dx)),
              MaxRatio(Tail(rs)))

RatioOf(laid) ==
    IF laid.raised # NoError THEN Undefined ELSE MaxRatio(laid.rects)

\* worst_ratio: Undefined when it raises
worst_ratio(s, x, y, dx, dy) == RatioOf(layout(s, x, y, dx, dy))

\* the test of the while loop of squarify: "raise", "continue" or "stop"
LoopTest(before, after) ==
    IF Failed(before) \/ Failed(after) THEN "raise"
    ELSE IF RLe(after, before) THEN "continue" ELSE "stop"

\* the while loop of squarify from i on: the split index, 0 when a
\* worst_ratio raises
RECURSIVE SplitIndex(_, _, _, _, _, _)
RECURSIVE SplitAfter(_, _, _, _, _, _, _)
SplitIndex(s, x, y, dx, dy, i) ==
    IF i >= Len(s) THEN i
    ELSE SplitAfter(s, x, y, dx, dy, i,
                    LoopTest(worst_ratio(SubSeq(s, 1, i), x, y, dx, dy),
                             worst_ratio(SubSeq(s, 1, i + 1), x, y, dx, dy)))
SplitAfter(s, x, y, dx, dy, i, test) ==
    IF test = "raise" THEN 0
    ELSE IF test = "continue" THEN SplitIndex(s, x, y, dx, dy, i + 1)
    ELSE i

\* layout(current, ...) + squarify(remaining, ...)
Concatenated(strip, rest) ==
    IF strip.raised # NoError THEN strip
    ELSE IF rest.raised # NoError THEN rest
    ELSE Returns(strip.rects \o rest.rects)

RECURSIVE squarify(_, _, _, _, _)
RECURSIVE SquarifyFrom(_, _, _, _, _, _)
RECURSIVE SquarifyRest(_, _, _)
squarify(s, x, y, dx, dy) ==
    IF Len(s) = 0 THEN Returns(<<>>)
    ELSE IF Len(s) = 1 THEN layout(s, x, y, dx, dy)
    ELSE SquarifyFrom(s, x, y, dx, dy, SplitIndex(s, x, y, dx, dy, 1))

\* squarify once the split index i is known
SquarifyFrom(s, x, y, dx, dy, i) ==
    IF i = 0 THEN Raises("ZeroDivisionError")
    ELSE SquarifyRest(layout(SubSeq(s, 1, i), x, y, dx, dy),
                      SubSeq(s, i + 1, Len(s)),
                      leftover(SubSeq(s, 1, i), x, y, dx, dy))

\* squarify once the strip is laid out and the leftover rectangle is known
SquarifyRest(strip, remaining, left) ==
    IF \E c \in 1..4 : Failed(left[c]) THEN Raises("ZeroDivisionError")
    ELSE Concatenated(strip,
                      squarify(remaining, left[1], left[2], left[3], left[4]))

(***************************************************************************)
(* normalize_sizes                                                         *)
(***************************************************************************)
\* the default of the parameter minimum_size, 0.01
minimum_size == <<1, 100>>

\* the list `sizes` after the loop that writes sizes[index]
FlooredKeepsSizes(s, minsize) == s
Floored(s, minsize) == [index \in 1..Len(s) |-> RMax(s[index], minsize)]

\* [raised, sizes: the caller's list afterwards, value: the list returned]
normalize_sizes(s, dx, dy) ==
    IF s = <<>>
    THEN [raised |-> "ValueError", sizes |-> s, value |-> <<>>]
    ELSE LET minsize == RMul(MaxOf(s), minimum_size)
             floored == Floored(s, minsize)
             total_size == Sum(floored)
             total_area == RMul(dx, dy)
             scaled == [i \in 1..Len(s) |->
                           RDiv(RMul(floored[i], total_area), total_size)]
         IN  IF \E i \in 1..Len(s) : Failed(scaled[i])
             THEN [raised |-> "ZeroDivisionError", sizes |-> floored,
                   value |-> <<>>]
             ELSE [raised |-> NoError, sizes |-> floored, value |-> scaled]

(***************************************************************************)
(* The inputs of the layout code.                                          *)
(***************************************************************************)
Dominant == 100 * MaxWeight
Weights == {Num(w) : w \in (0..MaxWeight) \cup {Dominant}}
WeightLists == UNION {[1..n -> Weights] : n \in 0..MaxItems}
Sides == {Num(d) : d \in 1..MaxSide}
Origins == {<<Num(0), Num(0)>>, <<Num(1), Num(2)>>}
Boxes == {[x |-> o[1], y |-> o[2], dx |-> dx, dy |-> dy] :
             o \in Origins, dx \in Sides, dy \in Sides}

\* sorted(..., reverse=True, key=characters) of Widget.__init__
SortedDescending(s) == \A i \in 1..(Len(s) - 1) : RLe(s[i + 1], s[i])

(***************************************************************************)
(* The layout operations.                                                  *)
(***************************************************************************)
\* the caller's list and the returned list after normalize_sizes ended as n
Normalized(n) ==
    /\ sizes' = n.sizes
    /\ normalized' = n.value
    /\ raised' = n.raised

\* the rectangles returned, or the exception raised, by a layout call
Laid(l) ==
    /\ rects' = l.rects
    /\ raised' = l.raised

\* normalize_sizes(sizes, dx, dy)
NormalizeSizes ==
    /\ op = "idle"
    /\ Normalized(normalize_sizes(sizes, box.dx, box.dy))
    /\ op' = "normalize_sizes"
    /\ UNCHANGED <<given, box, rects, squares, parserFields>>

\* layout(sizes, x, y, dx, dy)
Layout ==
    /\ op = "idle"
    /\ sizes # <<>>
    /\ Laid(layout(sizes, box.x, box.y, box.dx, box.dy))
    /\ op' = "layout"
    /\ UNCHANGED <<sizes, given, box, normalized, squares, parserFields>>

\* squarify(sizes, x, y, dx, dy)
Squarify ==
    /\ op = "idle"
    /\ Laid(squarify(sizes, box.x, box.y, box.dx, box.dy))
    /\ op' = "squarify"
    /\ UNCHANGED <<sizes, given, box, normalized, squares, parserFields>>

\* items[:peak] of Widget.layout
CharacterCounts(items, maxcount) ==
    SubSeq(items, 1, IF maxcount < Len(items) THEN maxcount ELSE Len(items))

\* the Square made for rectangle `index`: its name and the character count
\* its label and tool tip print
SquareOf(index, character_counts) ==
    [name |-> index,
     characters |-> character_counts[index],
     count |-> Truncate(character_counts[index])]

\* Widget.layout after squarify returned q
WidgetSquares(character_counts, q) ==
    /\ raised' = q.raised
    /\ rects' = q.rects
    /\ squares' = [index \in 1..Len(q.rects) |->
                      SquareOf(index, character_counts)]

\* Widget.layout after normalize_sizes returned n
WidgetNormalized(n) ==
    /\ sizes' = n.sizes
    /\ normalized' = n.value
    /\ IF n.raised # NoError
       THEN /\ raised' = n.raised
            /\ rects' = <<>>
            /\ squares' = <<>>
       ELSE WidgetSquares(n.sizes,
                          squarify(n.value, box.x, box.y, box.dx, box.dy))

\* Widget.layout, the items being `sizes` and the spin box holding maxcount
WidgetLayout ==
    /\ op = "idle"
    /\ SortedDescending(sizes)
    /\ box.x = Num(0) /\ box.y = Num(0)
    /\ \E maxcount \in 1..MaxItems :
          /\ given' = CharacterCounts(sizes, maxcount)
          /\ WidgetNormalized(normalize_sizes(CharacterCounts(sizes, maxcount),
                                              box.dx, box.dy))
    /\ op' = "Widget.layout"
    /\ UNCHANGED <<box, parserFields>>

InitLayout ==
    /\ file = <<>>
    /\ current_node = None
    /\ current_node_type = None
    /\ result = EmptyDict
    /\ raised = NoError
    /\ calls = 0
    /\ pre_node = None
    /\ pre_type = None
    /\ sizes \in WeightLists
    /\ given = sizes
    /\ box \in Boxes
    /\ normalized = <<>>
    /\ rects = <<>>
    /\ squares = <<>>
    /\ op = "idle"

NextLayout == NormalizeSizes \/ Layout \/ Squarify \/ WidgetLayout

SpecLayout == InitLayout /\ [][NextLayout]_vars

(***************************************************************************)
(* Definitions the properties of the parser are stated with.               *)
(***************************************************************************)
Parsed == calls > 0
Returned == Parsed /\ raised = NoError
Nodes == result.nodes

\* a line that begins with "select" or "connectAttr"
BeginsWithMarker(raw) ==
    StartsWith(raw, KwSelect) \/ StartsWith(raw, KwConnectAttr)

\* the position of the first such line, Len(lines) + 1 when there is none
FirstMarker(lines) ==
    IF \E k \in 1..Len(lines) : BeginsWithMarker(lines[k])
    THEN CHOOSE k \in 1..Len(lines) :
            /\ BeginsWithMarker(lines[k])
            /\ \A j \in 1..(k - 1) : ~BeginsWithMarker(lines[j])
    ELSE Len(lines) + 1

BeforeMarker(lines) == SubSeq(lines, 1, FirstMarker(lines) - 1)

IsCreateLine(raw) == StartsWith(Trim(raw), KwCreateNode)
IsSetAttrLine(raw) == StartsWith(Trim(raw), KwSetAttr)

\* the name after the -n flag of a createNode line (None when it has none)
NameAfterFlag(raw) ==
    LET comp == Split(Trim(raw))
        index == Index(comp, FlagN)
    IN  IF index = 0 \/ index + 1 > Len(comp)
        THEN None
        ELSE Some(RemoveQuotes(comp[index + 1]))

\* a createNode line with no type token, or no -n flag followed by a name
HasTypeToken(raw) ==
    LET comp == Split(Trim(raw))
    IN  Len(comp) >= 2 /\ Head(comp[2]) # "-"
Malformed(raw) ==
    IsCreateLine(raw) /\ (~HasTypeToken(raw) \/ NameAfterFlag(raw) = None)

\* the summed len() of the raw lines before the first marker that the loop
\* attributes to the node `key`, the loop standing at line k with node `cur`
RECURSIVE RawCharacters(_, _, _, _)
RawCharacters(cur, lines, k, key) ==
    IF k > Len(lines) \/ k >= FirstMarker(lines) THEN 0
    ELSE IF IsCreateLine(lines[k])
    THEN RawCharacters(NameAfterFlag(lines[k]), lines, k + 1, key)
    ELSE IF IsSetAttrLine(lines[k]) \/ cur # None
    THEN (IF cur = key THEN Len(lines[k]) ELSE 0)
         + RawCharacters(cur, lines, k + 1, key)
    ELSE RawCharacters(cur, lines, k + 1, key)

(***************************************************************************)
(* C1: once a line beginning with "select" or "connectAttr" has been read, *)
(* no later line changes result["nodes"]: the nodes after a parse call are *)
(* the nodes of parsing only the lines before the first such line.         *)
(***************************************************************************)
C1_TerminatorStopsAttribution ==
    Parsed =>
        Nodes = ParseLoop(ParseStart(pre_node, pre_type),
                          BeforeMarker(file), 1).nodes

\* a marker line is followed by a setAttr line while a node is current
C1_Witness ==
    /\ Returned
    /\ current_node # None
    /\ \E k \in 1..Len(file) :
          /\ k > FirstMarker(file)
          /\ IsSetAttrLine(file[k])

(***************************************************************************)
(* C2: a node's "characters" is the sum of len(line) over the raw,         *)
(* untrimmed input lines attributed to it.                                 *)
(***************************************************************************)
C2_CharactersCountRawLines ==
    Returned =>
        \A key \in DOMAIN Nodes :
            Nodes[key].characters = RawCharacters(pre_node, file, 1, key)

(***************************************************************************)
(* C3: every key of result["nodes"] is the name after -n of exactly one    *)
(* createNode line read before the first marker line; no entry exists      *)
(* under None.                                                             *)
(***************************************************************************)
C3_KeysAreCreatedOnce ==
    Returned =>
        \A key \in DOMAIN Nodes :
            /\ key # None
            /\ Cardinality({k \in 1..(FirstMarker(file) - 1) :
                              /\ IsCreateLine(file[k])
                              /\ NameAfterFlag(file[k]) = key}) = 1

(***************************************************************************)
(* C7: a createNode line with no type token, or no -n flag followed by a   *)
(* name, makes Parser.parse fail with MalformedStatement.                  *)
(***************************************************************************)
C7_MalformedCreateIsRejected ==
    (Parsed /\ \E k \in 1..(FirstMarker(file) - 1) : Malformed(file[k]))
        => raised = "MalformedStatement"

(***************************************************************************)
(* C8: the current node and node type are absent when a parse call begins, *)
(* so the nodes of a call depend on that call's input alone.               *)
(***************************************************************************)
C8_ParseStartsWithoutCurrentNode ==
    Parsed =>
        /\ pre_node = None
        /\ pre_type = None
        /\ Nodes = ParseLoop(ParserState(None, None, EmptyDict, NoError),
                             file, 1).nodes

(***************************************************************************)
(* Definitions the properties of the layout code are stated with.          *)
(***************************************************************************)
NormalizeRan == op = "normalize_sizes" \/ op = "Widget.layout"
SquarifyRan == op = "squarify" \/ (op = "Widget.layout" /\ normalized # <<>>)

\* the weights squarify was called with
SquarifyInput == IF op = "squarify" THEN given ELSE normalized

Zero == Num(0)
AllPositive(w) == \A i \in 1..Len(w) : RLt(Zero, w[i])
BoxArea == RMul(box.dx, box.dy)
AreaOf(r) == RMul(r.dx, r.dy)
Right(r) == RAdd(r.x, r.dx)
Bottom(r) == RAdd(r.y, r.dy)

Inside(r) ==
    /\ RLt(Zero, r.dx) /\ RLt(Zero, r.dy)
    /\ RLe(box.x, r.x) /\ RLe(Right(r), Right(box))
    /\ RLe(box.y, r.y) /\ RLe(Bottom(r), Bottom(box))

Disjoint(r, q) ==
    \/ RLe(Right(r), q.x) \/ RLe(Right(q), r.x)
    \/ RLe(Bottom(r), q.y) \/ RLe(Bottom(q), r.y)

\* the point <<a, b>> lies in r, the right and bottom edges excluded
Holds(r, a, b) ==
    /\ RLe(r.x, a) /\ RLt(a, Right(r))
    /\ RLe(r.y, b) /\ RLt(b, Bottom(r))

\* every cell of the grid the rectangles' edges cut the box into lies in a
\* rectangle: it is enough to look at the cell's top-left corner
GridX == {box.x} \cup {rects[i].x : i \in 1..Len(rects)}
              \cup {Right(rects[i]) : i \in 1..Len(rects)}
GridY == {box.y} \cup {rects[i].y : i \in 1..Len(rects)}
              \cup {Bottom(rects[i]) : i \in 1..Len(rects)}
Covered ==
    \A a \in GridX, b \in GridY :
        Holds(box, a, b) => \E i \in 1..Len(rects) : Holds(rects[i], a, b)

OnePerWeight ==
    /\ raised = NoError
    /\ Len(rects) = Len(SquarifyInput)
    /\ \A i \in 1..Len(rects) : AreaOf(rects[i]) = SquarifyInput[i]

\* max(sizes[i], r * max(sizes)) for the list `given`
RaisedToFloor(i) == RMax(given[i], RMul(minimum_size, MaxOf(given)))
RECURSIVE FlooredSum(_)
FlooredSum(n) == IF n = 0 THEN Zero ELSE RAdd(RaisedToFloor(n), FlooredSum(n - 1))

(***************************************************************************)
(* C4: for positive weights whose sum is dx*dy, the rectangles squarify    *)
(* returns are pairwise non-overlapping, each lies inside the bounding     *)
(* rectangle, and together they cover it.                                  *)
(***************************************************************************)
C4_SquarifyTilesTheBox ==
    (SquarifyRan /\ AllPositive(SquarifyInput) /\ Sum(SquarifyInput) = BoxArea)
        => /\ raised = NoError
           /\ \A i \in 1..Len(rects) : Inside(rects[i])
           /\ \A i, j \in 1..Len(rects) :
                 i # j => Disjoint(rects[i], rects[j])
           /\ Covered

\* three or more rectangles in more than one strip tile the box
C4_Witness ==
    /\ SquarifyRan /\ AllPositive(SquarifyInput)
    /\ Sum(SquarifyInput) = BoxArea
    /\ raised = NoError
    /\ Len(rects) >= 3
    /\ \E i, j \in 1..Len(rects) :
          rects[i].x # rects[j].x /\ rects[i].y # rects[j].y

(***************************************************************************)
(* C5 as stated: for every sequence of positive weights squarify returns   *)
(* one rectangle per weight, in input order, the i-th of area weight i.    *)
(***************************************************************************)
C5_OneRectanglePerWeight ==
    (op = "squarify" /\ AllPositive(SquarifyInput)) => OnePerWeight

(***************************************************************************)
(* C5 amended: for every sequence of positive weights whose sum does not   *)
(* exceed dx*dy, squarify returns one rectangle per weight, in input       *)
(* order, the i-th of area weight i.                                       *)
(***************************************************************************)
C5_OneRectanglePerFittingWeight ==
    (SquarifyRan /\ AllPositive(SquarifyInput)
        /\ RLe(Sum(SquarifyInput), BoxArea))
        => OnePerWeight

\* two weights share the first strip and a third starts the next one
C5_Witness ==
    /\ op = "squarify" /\ AllPositive(SquarifyInput)
    /\ RLe(Sum(SquarifyInput), BoxArea)
    /\ raised = NoError
    /\ Len(rects) >= 3
    /\ rects[1].x = rects[2].x /\ rects[1].dx = rects[2].dx
    /\ rects[3].x # rects[1].x

LeftToRight ==
    /\ rects[1].x = box.x
    /\ \A i \in 1..Len(rects) : rects[i].y = box.y /\ rects[i].dy = rects[1].dy
    /\ \A i \in 1..(Len(rects) - 1) : rects[i + 1].x = Right(rects[i])
TopToBottom ==
    /\ rects[1].y = box.y
    /\ \A i \in 1..Len(rects) : rects[i].x = box.x /\ rects[i].dx = rects[1].dx
    /\ \A i \in 1..(Len(rects) - 1) : rects[i + 1].y = Bottom(rects[i])

C9_RowWhenWide ==
    (op = "layout" /\ raised = NoError /\ AllPositive(given))
        => IF RLe(box.dy, box.dx) THEN LeftToRight ELSE TopToBottom

(***************************************************************************)
(* C9 amended: with width >= height layout stacks the rectangles top to    *)
(* bottom with the common width sum(sizes)/height (same x, increasing y);  *)
(* with width < height it places them left to right with the common height *)
(* sum(sizes)/width (same y, increasing x).                                *)
(***************************************************************************)
C9_ColumnWhenWide ==
    (op = "layout" /\ raised = NoError)
        => IF RLe(box.dy, box.dx)
           THEN TopToBottom /\ rects[1].dx = RDiv(Sum(given), box.dy)
           ELSE LeftToRight /\ rects[1].dy = RDiv(Sum(given), box.dx)

\* a strip of two or more rectangles laid out in a square box
C9_Witness ==
    /\ op = "layout" /\ raised = NoError
    /\ Len(rects) >= 2
    /\ box.dx = box.dy
    /\ rects[2].y # rects[1].y

(***************************************************************************)
(* C10: normalize_sizes leaves the list passed as sizes unchanged, so      *)
(* after Widget.layout called it character_counts[i] is still the parsed   *)
(* count and every square shows the parsed count.                          *)
(***************************************************************************)
C10_NormalizeLeavesSizesAlone ==
    (NormalizeRan /\ raised = NoError /\ AllPositive(given))
        => /\ sizes = given
           /\ op = "Widget.layout" =>
                 \A i \in 1..Len(squares) :
                     /\ squares[i].characters = given[i]
                     /\ squares[i].count = Truncate(given[i])

====
